---------------------------- MODULE Spec2Model ----------------------------
(***************************************************************************)
(* A model of the crypto chat agent: the /chat endpoint, the session map,  *)
(* CryptoAgent (memory, chat history, the agent executor's round-trip      *)
(* loop), the three tools, the construction of an agent's tool list, and   *)
(* the knowledge base's vector store module with document ingestion.       *)
(*                                                                         *)
(* Scheduling: /chat is an `async def` handler, so every request is a      *)
(* coroutine on one asyncio event loop.  A coroutine runs without          *)
(* interruption until it reaches an `await` that suspends; `running` is    *)
(* the request whose coroutine holds the loop (0: the loop is free).       *)
(*                                                                         *)
(* The executor loop itself is the framework's AgentExecutor.ainvoke, which *)
(* the repository constructs (agent.py:76-82) and awaits (agent.py:125).   *)
(* It is modelled with the defaults that construction leaves in place: a   *)
(* ceiling on the number of round-trips (max_iterations, 15 in the         *)
(* framework; MaxIterations here) at which the executor returns its        *)
(* stopped answer, and tools whose handle_validation_error and             *)
(* handle_tool_error are unset, so that an argument-validation error or a  *)
(* fault leaving a tool's _run is re-raised to the caller of ainvoke.      *)
(***************************************************************************)
EXTENDS Integers, Sequences, FiniteSets, TLC

(***************************************************************************)
(* Bounds of the model.                                                    *)
(***************************************************************************)
\* Number of chat requests that arrive in a behaviour.
MaxRequests == 2
\* MEMORY_WINDOW ranges over 0..MaxWindow.
MaxWindow == 1

\* The executor's ceiling on round-trips.  AgentExecutor is built without
\* max_iterations (agent.py:76-82), which leaves the framework's value; the
\* model takes a smaller one.
MaxIterations == 3

Requests == 1..MaxRequests
\* Session ids and message texts, in the order in which new ones appear.
Sessions == <<"s1", "s2">>
Texts == <<"u1", "u2">>
Answers == {"a1"}
\* The framework's answer when the loop is stopped at the ceiling.
STOPPED == "Agent stopped due to iteration limit or time limit."
AgentIds == 1..MaxRequests
ToolNames == <<"binance_price", "knowledge_base", "rejection_handler">>

NoResponse == [kind |-> "none"]

VARIABLES
    MEMORY_WINDOW,   \* settings.MEMORY_WINDOW
    chat_sessions,   \* endpoints.chat_sessions: session_id -> agent instance
    memory,          \* agent instance -> CryptoAgent.memory
    running,         \* the request whose coroutine holds the event loop, or 0
    pc,              \* request -> position of its chat() coroutine
    session_id,      \* request -> request.session_id
    message,         \* request -> request.message
    agent,           \* request -> local `agent` of chat() (0: unset)
    chat_history,    \* request -> local `chat_history` of process_message
    iterations,      \* request -> the executor's iteration counter
    output,          \* request -> response["output"]
    response,        \* request -> what chat() returned to the caller
    log,             \* agent instance -> exchanges whose _update_memory began
    last_model,      \* request -> how the latest model call of its exchange
                     \* ended ("": none yet)
    prompt           \* request -> the messages handed to the model at the
                     \* latest model call of its exchange

agentVars == <<MEMORY_WINDOW, chat_sessions, memory, running, pc, session_id,
               message, agent, chat_history, iterations, output, response, log,
               last_model, prompt>>

VARIABLES
    t_pc,            \* position of the tool call being executed
    t_tool,          \* name of the tool called
    t_args,          \* the arguments the model supplied
    t_store_ok,      \* KnowledgeBaseTool.vector_store is not None
    t_runs,          \* number of times the tool's _run was entered
    t_symbol,        \* BinancePriceTool._run: local `symbol`
    t_upstream,      \* calls the tool made to its backend (the Binance API,
                     \* the vector store), in order, with their outcome
    t_stats,         \* BinancePriceTool._run: stats_data["priceChangePercent"]
    t_docs,          \* KnowledgeBaseTool._run: local `results`
    t_fault,         \* the exception raised during the call ("": none)
    t_result,        \* the value the tool call returned
    proc,            \* which run of the program (interpreter process) this is
    str_hash,        \* hash() of the strings hashed so far in this process
    rej_log          \* (query, output) of every rejection call, over all runs

toolVars == <<t_pc, t_tool, t_args, t_store_ok, t_runs, t_symbol, t_upstream,
              t_stats, t_docs, t_fault, t_result, proc, str_hash, rej_log>>

\* The knowledge base: settings, stores, the vector store module's global,
\* ingestion runs, and the construction of an agent's tools.
VARIABLES
    VECTOR_DB_TYPE,         \* settings.VECTOR_DB_TYPE
    stores,                 \* store -> the chunks it holds
    vs_made,                \* the store instances get_vector_store has built
    vector_store_instance,  \* _vector_store_instance: index in vs_made, 0 = None
    deletes,                \* delete_collection calls completed
    writes,                 \* the add_documents calls made on instances
    i_pc,                   \* ingestion run -> its position
    i_reset,                \* ingestion run -> its `reset` argument
    i_chunks,               \* ingestion run -> len(split_docs)
    i_store,                \* ingestion run -> add_documents' `vector_store`
    i_ret,                  \* ingestion run -> returned count, -1: none
    c_pc,                   \* position of the agent construction in progress
    c_tools,                \* _initialize_tools' local `tools`
    c_ok,                   \* the tools whose constructor returned
    kb_tool,                \* the KnowledgeBaseTool built last, with its store
    agent_tools,            \* the agents constructed: tools and outcomes
    kb_found                \* outcome of the latest knowledge_base search

storeVars == <<VECTOR_DB_TYPE, stores, vs_made, vector_store_instance, deletes,
               writes, i_pc, i_reset, i_chunks, i_store, i_ret>>

catalogVars == <<c_pc, c_tools, c_ok, kb_tool, agent_tools, kb_found>>

kbVars == <<storeVars, catalogVars>>

vars == <<agentVars, toolVars, kbVars>>


(***************************************************************************)
(* Python list slicing s[i:].                                              *)
(***************************************************************************)
Min(a, b) == IF a < b THEN a ELSE b
Max(a, b) == IF a > b THEN a ELSE b

PySliceFrom(s, i) ==
    LET n == Len(s)
        start == IF i < 0 THEN Max(n + i, 0) ELSE Min(i, n)
    IN  SubSeq(s, start + 1, n)

(***************************************************************************)
(* CryptoAgent memory.                                                     *)
(***************************************************************************)
HumanTurn(text) == [role |-> "human", content |-> text]
\* The text is stored as a tool turn.
AssistantTurn_Mutant(text) == [role |-> "tool", content |-> text]

AssistantTurn(text) == [role |-> "assistant", content |-> text]

\* One turn fewer than the window is kept.
TrimMemory_Odd(mem, window) ==
    IF Len(mem) > window * 2 THEN PySliceFrom(mem, 1 - window * 2) ELSE mem

\* agent.py:96-98
TrimMemory(mem, window) ==
    IF Len(mem) > window * 2 THEN PySliceFrom(mem, (-window) * 2) ELSE mem

\* agent.py:100-110
RECURSIVE FormatChatHistory(_)
FormatChatHistory(mem) ==
    IF mem = << >> THEN << >>
    ELSE LET msg == Head(mem)
             rest == FormatChatHistory(Tail(mem))
         IN  IF msg.role = "human"
             THEN <<[type |-> "HumanMessage", content |-> msg.content]>> \o rest
             ELSE IF msg.role = "assistant"
             THEN <<[type |-> "AIMessage", content |-> msg.content]>> \o rest
             ELSE rest

SYSTEM_PROMPT == [type |-> "SystemMessage", content |-> "SYSTEM_PROMPT"]

\* The agent_scratchpad after n tool round-trips: the model's tool call and
\* the tool's result of each, oldest first.
ScratchPad(n) ==
    [i \in 1..(2 * n) |->
        IF i % 2 = 1 THEN [type |-> "AIMessage", content |-> <<"tool_call", (i + 1) \div 2>>]
        ELSE [type |-> "ToolMessage", content |-> <<"tool_result", i \div 2>>]]

\* The history is put after the new user turn.
PromptMessages_Mutant(history, input, scratchpad) ==
    <<SYSTEM_PROMPT>> \o <<[type |-> "HumanMessage", content |-> input]>>
        \o history \o scratchpad

\* agent.py:66-71: the prompt template filled in for one model call
PromptMessages(history, input, scratchpad) ==
    <<SYSTEM_PROMPT>> \o history
        \o <<[type |-> "HumanMessage", content |-> input]>> \o scratchpad

(***************************************************************************)
(* Which positions of the coroutine suspend at an await (release the       *)
(* loop): the await of ainvoke and the awaits inside the executor's loop.  *)
(* Everything in get_agent and _update_memory is synchronous.              *)
(***************************************************************************)
\* An await between the two appends of _update_memory.
Suspends_Mutant(p) ==
    p \in {"awaiting_model", "executing_tools", "update_memory", "append_assistant"}

\* Constructing the agent gives up the loop as well.
Suspends_AtCreate(p) ==
    p \in {"create", "awaiting_model", "executing_tools", "update_memory"}

Suspends(p) == p \in {"awaiting_model", "executing_tools", "update_memory"}

\* Who holds the loop once request r's coroutine has moved to position p.
Release(p, r) == IF Suspends(p) \/ p \in {"done", "failed"} THEN 0 ELSE r

\* Request r's coroutine can take its next step: a handler not yet started or
\* a suspended coroutine needs the loop free, a running one holds the loop.
CanStep(r) ==
    IF pc[r] = "ready" \/ Suspends(pc[r]) THEN running = 0 ELSE running = r

InFlight(r) == pc[r] \notin {"new", "done", "failed"}

AgentInit ==
    /\ MEMORY_WINDOW \in 0..MaxWindow
    /\ chat_sessions = << >>
    /\ memory = << >>
    /\ running = 0
    /\ pc = [r \in Requests |-> "new"]
    /\ session_id = [r \in Requests |-> "s1"]
    /\ message = [r \in Requests |-> "u1"]
    /\ agent = [r \in Requests |-> 0]
    /\ chat_history = [r \in Requests |-> << >>]
    /\ iterations = [r \in Requests |-> 0]
    /\ output = [r \in Requests |-> ""]
    /\ response = [r \in Requests |-> NoResponse]
    /\ log = << >>
    /\ last_model = [r \in Requests |-> ""]
    /\ prompt = [r \in Requests |-> << >>]

(***************************************************************************)
(* The /chat endpoint.                                                     *)
(***************************************************************************)
\* endpoints.py:69-73: any exception of the handler becomes an HTTP 500 whose
\* detail carries str(e).
HttpError(e) ==
    [kind |-> "http_error", status_code |-> 500,
     detail |-> <<"Error processing message: ", e>>]

\* endpoints.py:63-67
ChatResponse(sid, text) ==
    [kind |-> "ok", session_id |-> sid, response |-> text, status |-> "success"]

\* The exception e leaves chat()'s try block at request r; the locals of the
\* coroutine are gone.
Raise(r, e) ==
    /\ pc' = [pc EXCEPT ![r] = "failed"]
    /\ response' = [response EXCEPT ![r] = HttpError(e)]
    /\ chat_history' = [chat_history EXCEPT ![r] = << >>]
    /\ iterations' = [iterations EXCEPT ![r] = 0]
    /\ prompt' = [prompt EXCEPT ![r] = << >>]
    /\ running' = 0

\* Request r moves to position p.
Goto(r, p) ==
    /\ pc' = [pc EXCEPT ![r] = p]
    /\ running' = Release(p, r)

\* The values a new request can carry in a field: one an earlier request
\* carried, or the next one of `names` not yet seen.  (Ids and texts are only
\* ever compared for equality, so which new one it is makes no difference.)
SeenOrNext(seen, names) ==
    seen \cup {names[Min(Cardinality(seen) + 1, Len(names))]}

\* A POST /chat arrives; requests are numbered in arrival order.
Arrive(r) ==
    /\ pc[r] = "new"
    /\ r > 1 => pc[r - 1] # "new"
    /\ \E s \in SeenOrNext({session_id[q] : q \in 1..(r - 1)}, Sessions),
          t \in SeenOrNext({message[q] : q \in 1..(r - 1)}, Texts) :
        /\ session_id' = [session_id EXCEPT ![r] = s]
        /\ message' = [message EXCEPT ![r] = t]
    /\ pc' = [pc EXCEPT ![r] = "ready"]
    /\ UNCHANGED <<MEMORY_WINDOW, chat_sessions, memory, running, agent,
                   chat_history, iterations, output, response, log,
                   last_model, prompt>>
    /\ UNCHANGED toolVars
    /\ UNCHANGED kbVars

\* get_agent without its test: a new agent for every request.
GetAgentCheck_Mutant(r) ==
    /\ pc[r] = "ready"
    /\ CanStep(r)
    /\ agent' = agent
    /\ Goto(r, "create")
    /\ UNCHANGED <<MEMORY_WINDOW, chat_sessions, memory, session_id, message,
                   chat_history, iterations, output, response, log,
                   last_model, prompt>>
    /\ UNCHANGED toolVars
    /\ UNCHANGED kbVars

\* endpoints.py:58, 35, 38: chat() starts and get_agent tests the session map.
GetAgentCheck(r) ==
    /\ pc[r] = "ready"
    /\ CanStep(r)
    /\ IF session_id[r] \in DOMAIN chat_sessions
       THEN /\ agent' = [agent EXCEPT ![r] = chat_sessions[session_id[r]]]
            /\ Goto(r, "format")
       ELSE /\ agent' = agent
            /\ Goto(r, "create")
    /\ UNCHANGED <<MEMORY_WINDOW, chat_sessions, memory, session_id, message,
                   chat_history, iterations, output, response, log,
                   last_model, prompt>>
    /\ UNCHANGED toolVars
    /\ UNCHANGED kbVars

\* One agent instance shared by every session.
NewAgentId_Mutant ==
    IF DOMAIN memory = {} THEN Cardinality(DOMAIN memory) + 1
    ELSE CHOOSE a \in DOMAIN memory : TRUE

\* CryptoAgent() is a new object each time it is evaluated.
NewAgentId == Cardinality(DOMAIN memory) + 1

\* endpoints.py:36, 38 and agent.py:24-29: a new CryptoAgent with empty memory
\* is stored under the session id and returned.
CreateAgent(r) ==
    /\ pc[r] = "create"
    /\ CanStep(r)
    /\ chat_sessions' = (session_id[r] :> NewAgentId) @@ chat_sessions
    /\ memory' = memory @@ (NewAgentId :> << >>)
    /\ log' = log @@ (NewAgentId :> << >>)
    /\ agent' = [agent EXCEPT ![r] = NewAgentId]
    /\ Goto(r, "format")
    /\ UNCHANGED <<MEMORY_WINDOW, session_id, message, chat_history,
                   iterations, output, response,
                   last_model, prompt>>
    /\ UNCHANGED toolVars
    /\ UNCHANGED kbVars

\* The session is registered although the constructor raised.
CreateAgentFails_Stored(r) ==
    /\ pc[r] = "create"
    /\ CanStep(r)
    /\ chat_sessions' = (session_id[r] :> NewAgentId) @@ chat_sessions
    /\ memory' = memory @@ (NewAgentId :> << >>)
    /\ log' = log @@ (NewAgentId :> << >>)
    /\ Raise(r, "AgentInitError")
    /\ UNCHANGED <<MEMORY_WINDOW, session_id, message, agent, output,
                   last_model>>
    /\ UNCHANGED toolVars
    /\ UNCHANGED kbVars

\* endpoints.py:36 with agent.py:26-28 raising: nothing is stored.
CreateAgentFails(r) ==
    /\ pc[r] = "create"
    /\ CanStep(r)
    /\ Raise(r, "AgentInitError")
    /\ UNCHANGED <<MEMORY_WINDOW, chat_sessions, memory, session_id, message,
                   agent, output, log,
                   last_model>>
    /\ UNCHANGED toolVars
    /\ UNCHANGED kbVars

(***************************************************************************)
(* CryptoAgent.process_message.                                            *)
(***************************************************************************)
\* agent.py:122-125: build the chat history, then await the executor.
FormatHistory(r) ==
    /\ pc[r] = "format"
    /\ CanStep(r)
    /\ chat_history' =
          [chat_history EXCEPT ![r] = FormatChatHistory(memory[agent[r]])]
    /\ Goto(r, "awaiting_model")
    /\ UNCHANGED <<MEMORY_WINDOW, chat_sessions, memory, session_id, message,
                   agent, iterations, output, response, log,
                   last_model, prompt>>
    /\ UNCHANGED toolVars
    /\ UNCHANGED kbVars

\* No ceiling.
ShouldContinue_Mutant(n) == TRUE

\* The executor goes round again only below its ceiling.
ShouldContinue(n) == n < MaxIterations

\* The stopped answer is returned without being written to memory.
ExecutorReturns_Mutant(r, text) ==
    /\ output' = [output EXCEPT ![r] = text]
    /\ iterations' = [iterations EXCEPT ![r] = 0]
    /\ Goto(r, IF text = STOPPED THEN "return" ELSE "update_memory")

\* The executor returns text as response["output"] (agent.py:131).
ExecutorReturns(r, text) ==
    /\ output' = [output EXCEPT ![r] = text]
    /\ iterations' = [iterations EXCEPT ![r] = 0]
    /\ Goto(r, "update_memory")

\* The model answers with a final text.
ModelFinal(r) ==
    /\ pc[r] = "awaiting_model"
    /\ last_model' = [last_model EXCEPT ![r] = "final"]
    /\ CanStep(r)
    /\ prompt' = [prompt EXCEPT ![r] =
                     PromptMessages(chat_history[r], message[r],
                                    ScratchPad(iterations[r]))]
    /\ ShouldContinue(iterations[r])
    /\ \E a \in Answers : ExecutorReturns(r, a)
    /\ UNCHANGED <<MEMORY_WINDOW, chat_sessions, memory, session_id, message,
                   agent, chat_history, response, log>>
    /\ UNCHANGED toolVars
    /\ UNCHANGED kbVars

\* The model answers with a tool call.
ModelToolCalls(r) ==
    /\ pc[r] = "awaiting_model"
    /\ last_model' = [last_model EXCEPT ![r] = "tool_calls"]
    /\ CanStep(r)
    /\ prompt' = [prompt EXCEPT ![r] =
                     PromptMessages(chat_history[r], message[r],
                                    ScratchPad(iterations[r]))]
    /\ ShouldContinue(iterations[r])
    /\ Goto(r, "executing_tools")
    /\ UNCHANGED <<MEMORY_WINDOW, chat_sessions, memory, session_id, message,
                   agent, chat_history, iterations, output, response, log>>
    /\ UNCHANGED toolVars
    /\ UNCHANGED kbVars

\* The failed model call is made again.
ModelFails_Retry(r) ==
    /\ pc[r] = "awaiting_model"
    /\ last_model' = [last_model EXCEPT ![r] = "failed"]
    /\ CanStep(r)
    /\ prompt' = [prompt EXCEPT ![r] =
                     PromptMessages(chat_history[r], message[r],
                                    ScratchPad(iterations[r]))]
    /\ ShouldContinue(iterations[r])
    /\ Goto(r, "awaiting_model")
    /\ UNCHANGED <<MEMORY_WINDOW, chat_sessions, memory, session_id, message,
                   agent, chat_history, iterations, output, response, log>>
    /\ UNCHANGED toolVars
    /\ UNCHANGED kbVars

\* The failed exchange is written to memory before the error is raised.
ModelFails_Mutant(r) ==
    /\ pc[r] = "awaiting_model"
    /\ last_model' = [last_model EXCEPT ![r] = "failed"]
    /\ CanStep(r)
    /\ ShouldContinue(iterations[r])
    /\ memory' = [memory EXCEPT ![agent[r]] =
                     @ \o <<HumanTurn(message[r]), AssistantTurn("error")>>]
    /\ Raise(r, "ModelUnavailable")
    /\ UNCHANGED <<MEMORY_WINDOW, chat_sessions, session_id, message, agent,
                   output, log>>
    /\ UNCHANGED toolVars
    /\ UNCHANGED kbVars

\* agent.py:125 raises (the model call failed): process_message has no
\* handler, so line 134 is skipped and chat() answers 500.
ModelFails(r) ==
    /\ pc[r] = "awaiting_model"
    /\ last_model' = [last_model EXCEPT ![r] = "failed"]
    /\ CanStep(r)
    /\ ShouldContinue(iterations[r])
    /\ Raise(r, "ModelUnavailable")
    /\ UNCHANGED <<MEMORY_WINDOW, chat_sessions, memory, session_id, message,
                   agent, output, log>>
    /\ UNCHANGED toolVars
    /\ UNCHANGED kbVars

\* The ceiling is reached without a final answer: the executor returns its
\* stopped response.
StopAtCeiling(r) ==
    /\ pc[r] = "awaiting_model"
    /\ CanStep(r)
    /\ ~ShouldContinue(iterations[r])
    /\ ExecutorReturns(r, STOPPED)
    /\ UNCHANGED <<MEMORY_WINDOW, chat_sessions, memory, session_id, message,
                   agent, chat_history, response, log,
                   last_model, prompt>>
    /\ UNCHANGED toolVars
    /\ UNCHANGED kbVars

\* How a dispatched tool call can end for the executor: the tool returned a
\* value (a result or the tool's own error text), or its run raised.
ToolRunOutcomes == {"returned", "raised"}

\* The requested tool call is dispatched; a returned value joins the
\* scratchpad and the loop goes round, a raised error leaves ainvoke.
ExecTool(r) ==
    /\ pc[r] = "executing_tools"
    /\ CanStep(r)
    /\ \E o \in ToolRunOutcomes :
        IF o = "returned"
        THEN /\ iterations' = [iterations EXCEPT ![r] = @ + 1]
             /\ Goto(r, "awaiting_model")
             /\ UNCHANGED <<chat_history, response, prompt>>
        ELSE Raise(r, "ToolError")
    /\ UNCHANGED <<MEMORY_WINDOW, chat_sessions, memory, session_id, message,
                   agent, output, log,
                   last_model>>
    /\ UNCHANGED toolVars
    /\ UNCHANGED kbVars

\* agent.py:134, 93
AppendHuman(r) ==
    /\ pc[r] = "update_memory"
    /\ CanStep(r)
    /\ memory' = [memory EXCEPT ![agent[r]] = Append(@, HumanTurn(message[r]))]
    /\ log' = [log EXCEPT ![agent[r]] =
                  Append(@, [req |-> r, user |-> message[r],
                             assistant |-> output[r]])]
    /\ Goto(r, "append_assistant")
    /\ UNCHANGED <<MEMORY_WINDOW, chat_sessions, session_id, message, agent,
                   chat_history, iterations, output, response,
                   last_model, prompt>>
    /\ UNCHANGED toolVars
    /\ UNCHANGED kbVars

\* agent.py:94
AppendAssistant(r) ==
    /\ pc[r] = "append_assistant"
    /\ CanStep(r)
    /\ memory' = [memory EXCEPT ![agent[r]] =
                     Append(@, AssistantTurn(output[r]))]
    /\ Goto(r, "trim")
    /\ UNCHANGED <<MEMORY_WINDOW, chat_sessions, session_id, message, agent,
                   chat_history, iterations, output, response, log,
                   last_model, prompt>>
    /\ UNCHANGED toolVars
    /\ UNCHANGED kbVars

\* agent.py:97-98
Trim(r) ==
    /\ pc[r] = "trim"
    /\ CanStep(r)
    /\ memory' = [memory EXCEPT ![agent[r]] = TrimMemory(@, MEMORY_WINDOW)]
    /\ Goto(r, "return")
    /\ UNCHANGED <<MEMORY_WINDOW, chat_sessions, session_id, message, agent,
                   chat_history, iterations, output, response, log,
                   last_model, prompt>>
    /\ UNCHANGED toolVars
    /\ UNCHANGED kbVars

\* agent.py:136 and endpoints.py:63-67
Respond(r) ==
    /\ pc[r] = "return"
    /\ CanStep(r)
    /\ response' = [response EXCEPT ![r] = ChatResponse(session_id[r], output[r])]
    /\ chat_history' = [chat_history EXCEPT ![r] = << >>]
    /\ output' = [output EXCEPT ![r] = ""]
    /\ prompt' = [prompt EXCEPT ![r] = << >>]
    /\ Goto(r, "done")
    /\ UNCHANGED <<MEMORY_WINDOW, chat_sessions, memory, session_id, message,
                   agent, iterations, log,
                   last_model>>
    /\ UNCHANGED toolVars
    /\ UNCHANGED kbVars

AgentNext ==
    \E r \in Requests :
        \/ Arrive(r)
        \/ GetAgentCheck(r)
        \/ CreateAgent(r)
        \/ CreateAgentFails(r)
        \/ FormatHistory(r)
        \/ ModelFinal(r)
        \/ ModelToolCalls(r)
        \/ ModelFails(r)
        \/ StopAtCeiling(r)
        \/ ExecTool(r)
        \/ AppendHuman(r)
        \/ AppendAssistant(r)
        \/ Trim(r)
        \/ Respond(r)

(***************************************************************************)
(* Strings are sequences of one-character strings, so that upper(),        *)
(* lower(), strip(), len() and `in` are computed as Python computes them.  *)
(***************************************************************************)
LowerLetters == <<"a", "b", "c", "d", "e", "f", "g", "h", "i", "j", "k", "l", "m",
                  "n", "o", "p", "q", "r", "s", "t", "u", "v", "w", "x", "y", "z">>
UpperLetters == <<"A", "B", "C", "D", "E", "F", "G", "H", "I", "J", "K", "L", "M",
                  "N", "O", "P", "Q", "R", "S", "T", "U", "V", "W", "X", "Y", "Z">>

IndexIn(c, letters) == CHOOSE i \in DOMAIN letters : letters[i] = c
IsIn(c, letters) == \E i \in DOMAIN letters : letters[i] = c

UpperChar(c) == IF IsIn(c, LowerLetters) THEN UpperLetters[IndexIn(c, LowerLetters)] ELSE c
LowerChar(c) == IF IsIn(c, UpperLetters) THEN LowerLetters[IndexIn(c, UpperLetters)] ELSE c

\* str.upper(), str.lower()
PyUpper(str) == [i \in DOMAIN str |-> UpperChar(str[i])]
PyLower(str) == [i \in DOMAIN str |-> LowerChar(str[i])]

IsSpace(c) == c \in {" ", "\t", "\n"}

\* str.strip(): leading and trailing whitespace removed
RECURSIVE PyLStrip(_)
PyLStrip(str) ==
    IF str # << >> /\ IsSpace(Head(str)) THEN PyLStrip(Tail(str)) ELSE str

RECURSIVE PyRStrip(_)
PyRStrip(str) ==
    IF str # << >> /\ IsSpace(str[Len(str)])
    THEN PyRStrip(SubSeq(str, 1, Len(str) - 1))
    ELSE str

PyStrip(str) == PyRStrip(PyLStrip(str))

\* `k in s` for strings
IsSubstring(k, str) ==
    \E i \in 1..(Len(str) - Len(k) + 1) : SubSeq(str, i, i + Len(k) - 1) = k

(***************************************************************************)
(* Inputs of the tool calls.                                               *)
(***************************************************************************)
\* Longest symbol the model is given.
MaxSymLen == 7
SymChars == {" ", "b", "T"}
Symbols == UNION {[1..n -> SymChars] : n \in 0..MaxSymLen}

QWeatherNews == <<"W", "e", "a", "t", "h", "e", "r", " ", "n", "e", "w", "s">>
QNewsSport == <<"n", "e", "w", "s", " ", "o", "n", " ", "S", "P", "O", "R", "T">>
QHi == <<"h", "i">>
Queries == {QWeatherNews, QNewsSport, QHi}

\* Result counts a knowledge base call asks for (k), and the indexed chunks.
KValues == {1, 2}
Docs == {"d1", "d2"}

\* Python's hash() of a str is a signed integer: -HashBound..HashBound.
HashBound == 2
HashRange == (-HashBound)..HashBound

\* Number of runs of the program (processes) a behaviour goes through.
MaxProcs == 2

\* binance_tool.py:15-17, kb_tool.py:31-34, rejection_tool.py:10-12
RequiredFields(tool) ==
    CASE tool = "binance_price" -> {"symbol"}
      [] tool = "knowledge_base" -> {"query"}
      [] tool = "rejection_handler" -> {"query"}

\* kb_tool.py:34
DefaultK == 5

NoArgs == [given |-> {}, symbol |-> << >>, query |-> << >>, k |-> DefaultK]

\* The argument objects a model can send to a tool: with or without the
\* required field, the optional k given or left to its default.
ToolArgs(tool) ==
    CASE tool = "binance_price" ->
            {NoArgs} \cup {[NoArgs EXCEPT !.given = {"symbol"}, !.symbol = y] :
                            y \in Symbols}
      [] tool = "knowledge_base" ->
            {NoArgs, [NoArgs EXCEPT !.given = {"k"}, !.k = 1]}
            \cup {[NoArgs EXCEPT !.given = {"query"}, !.query = q] : q \in Queries}
            \cup {[NoArgs EXCEPT !.given = {"query", "k"}, !.query = q, !.k = k] :
                    q \in Queries, k \in KValues}
      [] tool = "rejection_handler" ->
            {NoArgs} \cup {[NoArgs EXCEPT !.given = {"query"}, !.query = q] :
                            q \in Queries}

NoResult == [kind |-> "none"]

\* A Python float, as far as the tool looks at it: not-a-number, or a number
\* held in thousandths (the upstream API sends percentages with 3 decimals).
NaN == [nan |-> TRUE, milli |-> 0]
Num(m) == [nan |-> FALSE, milli |-> m]

NoStats == [given |-> FALSE, parses |-> TRUE, value |-> Num(0)]

ToolInit ==
    /\ t_pc = "idle"
    /\ t_tool = ""
    /\ t_args = NoArgs
    /\ t_store_ok = FALSE
    /\ t_runs = 0
    /\ t_symbol = << >>
    /\ t_upstream = << >>
    /\ t_stats = NoStats
    /\ t_docs = << >>
    /\ t_fault = ""
    /\ t_result = NoResult
    /\ proc = 1
    /\ str_hash = << >>
    /\ rej_log = {}

(***************************************************************************)
(* Tool execution: the framework validates the arguments against the       *)
(* tool's args_schema and then enters the tool's _run.                     *)
(***************************************************************************)
\* The model requests `tool`; a KnowledgeBaseTool instance may or may not
\* have got its vector store at construction (kb_tool.py:51, 53-82).
InvokeTool(tool) ==
    /\ t_pc = "idle"
    /\ t_tool' = tool
    /\ \E a \in ToolArgs(tool) : t_args' = a
    /\ t_store_ok' \in (IF tool = "knowledge_base" THEN BOOLEAN ELSE {FALSE})
    /\ t_pc' = "validate_args"
    /\ UNCHANGED <<t_runs, t_symbol, t_upstream, t_stats, t_docs, t_fault,
                   t_result, proc, str_hash, rej_log>>
    /\ UNCHANGED agentVars
    /\ UNCHANGED kbVars

ArgsValid(tool, args) == RequiredFields(tool) \subseteq args.given

HandlerEntry(tool) ==
    CASE tool = "binance_price" -> "bn_validate"
      [] tool = "knowledge_base" -> "kb_check"
      [] tool = "rejection_handler" -> "rj_run"

\* Arguments that fail the schema raise a validation error out of the tool
\* run (no tool sets handle_validation_error); valid ones enter _run.
ValidateArgs ==
    /\ t_pc = "validate_args"
    /\ IF ArgsValid(t_tool, t_args)
       THEN /\ t_runs' = t_runs + 1
            /\ t_pc' = HandlerEntry(t_tool)
            /\ t_fault' = t_fault
       ELSE /\ t_fault' = "ValidationError"
            /\ t_pc' = "raised"
            /\ t_runs' = t_runs
    /\ UNCHANGED <<t_tool, t_args, t_store_ok, t_symbol, t_upstream, t_stats,
                   t_docs, t_result, proc, str_hash, rej_log>>
    /\ UNCHANGED agentVars
    /\ UNCHANGED kbVars

\* BinancePriceTool._run without its try/except.
HandlesFault_Mutant(tool) == tool \in {"knowledge_base"}

\* Whether the tool's _run encloses its work in try/except Exception:
\* binance_tool.py:164, 215; kb_tool.py:98, 120; rejection_tool.py has none.
HandlesFault(tool) == tool \in {"binance_price", "knowledge_base"}

\* binance_tool.py:216-228 and kb_tool.py:121: what the except clause returns.
ErrorResult(tool, e, sym) ==
    IF tool = "binance_price"
    THEN [kind |-> "json",
          body |-> [error |-> TRUE, message |-> e, symbol |-> sym,
                    data_source |-> "Binance API", status |-> "ERROR"]]
    ELSE [kind |-> "text", body |-> <<"Error searching knowledge base: ", e>>]

\* The exception e is raised inside _run (sym: its local `symbol`).
HandlerFault(e, sym) ==
    /\ t_fault' = e
    /\ IF HandlesFault(t_tool)
       THEN /\ t_result' = ErrorResult(t_tool, e, sym)
            /\ t_pc' = "returned"
       ELSE /\ t_result' = t_result
            /\ t_pc' = "raised"

\* _run returns value.
HandlerReturns(value) ==
    /\ t_result' = value
    /\ t_pc' = "returned"
    /\ t_fault' = t_fault

(***************************************************************************)
(* BinancePriceTool._run                                                   *)
(***************************************************************************)
\* binance_tool.py:171
MinSymbolLen == 6

\* The length check is dropped.
SymbolInvalid_Mutant(sym) == sym = << >>

SymbolInvalid(sym) == sym = << >> \/ Len(sym) < MinSymbolLen

\* binance_tool.py:168-172
BnValidate ==
    /\ t_pc = "bn_validate"
    /\ t_symbol' = PyStrip(PyUpper(t_args.symbol))
    /\ IF SymbolInvalid(t_symbol')
       THEN HandlerFault("Invalid symbol format", t_symbol')
       ELSE /\ t_pc' = "bn_price"
            /\ UNCHANGED <<t_fault, t_result>>
    /\ UNCHANGED <<t_tool, t_args, t_store_ok, t_runs, t_upstream, t_stats,
                   t_docs, proc, str_hash, rej_log>>
    /\ UNCHANGED agentVars
    /\ UNCHANGED kbVars

\* How one requests.get of _make_request can end (binance_tool.py:91-110).
UpstreamOutcomes ==
    {"ok", "timeout", "http_400", "http_429", "http_other", "network", "bad_json"}

\* raise_for_status() is not called: an HTTP error status comes back as data.
RequestRaises_Mutant(o) == o \in {"timeout", "network", "bad_json"}

\* binance_tool.py:91-94: requests.get, raise_for_status() or json() raises.
RequestRaises(o) == o # "ok"

\* binance_tool.py:98-110: the exception _make_request raises instead.  (For
\* a body that is not JSON the text is that of line 110 or of line 108,
\* according to the class the installed requests raises.)
MakeRequestError(o) ==
    CASE o = "timeout" -> "Request timed out - Binance API might be slow"
      [] o = "http_400" -> "Invalid symbol or parameters"
      [] o = "http_429" -> "Rate limit exceeded - too many requests"
      [] o = "http_other" -> "HTTP error"
      [] o = "network" -> "Network error"
      [] o = "bad_json" -> "Invalid JSON response"

\* A failed price request is issued once more before the handler gives up.
BnPrice_Retry ==
    /\ t_pc = "bn_price"
    /\ \E o \in UpstreamOutcomes :
        /\ t_upstream' = Append(t_upstream, [endpoint |-> "/api/v3/ticker/price",
                                             outcome |-> o])
        /\ IF ~RequestRaises(o)
           THEN /\ t_pc' = "bn_stats"
                /\ UNCHANGED <<t_fault, t_result>>
           ELSE IF t_upstream = << >>
           THEN UNCHANGED <<t_pc, t_fault, t_result>>
           ELSE HandlerFault(MakeRequestError(o), t_symbol)
    /\ UNCHANGED <<t_tool, t_args, t_store_ok, t_runs, t_symbol, t_stats,
                   t_docs, proc, str_hash, rej_log>>
    /\ UNCHANGED agentVars
    /\ UNCHANGED kbVars

\* binance_tool.py:176, 112-124
BnPrice ==
    /\ t_pc = "bn_price"
    /\ \E o \in UpstreamOutcomes :
        /\ t_upstream' = Append(t_upstream, [endpoint |-> "/api/v3/ticker/price",
                                             outcome |-> o])
        /\ IF ~RequestRaises(o)
              THEN /\ t_pc' = "bn_stats"
                /\ UNCHANGED <<t_fault, t_result>>
           ELSE HandlerFault(MakeRequestError(o), t_symbol)
    /\ UNCHANGED <<t_tool, t_args, t_store_ok, t_runs, t_symbol, t_stats,
                   t_docs, proc, str_hash, rej_log>>
    /\ UNCHANGED agentVars
    /\ UNCHANGED kbVars

\* Percentages the upstream response can carry, in thousandths.
ChangeMillis == {-1000, -4, 0, 4, 1000}

\* What the 24hr response can hold under "priceChangePercent": nothing, a
\* text float() rejects, or a text float() accepts ("nan" included).
StatsValues ==
    {NoStats, [given |-> TRUE, parses |-> FALSE, value |-> Num(0)]}
    \cup {[given |-> TRUE, parses |-> TRUE, value |-> v] :
            v \in {NaN} \cup {Num(m) : m \in ChangeMillis}}

\* binance_tool.py:180, 126-138
BnStats ==
    /\ t_pc = "bn_stats"
    /\ \E o \in UpstreamOutcomes :
        /\ t_upstream' = Append(t_upstream, [endpoint |-> "/api/v3/ticker/24hr",
                                             outcome |-> o])
        /\ IF ~RequestRaises(o)
           THEN /\ t_stats' \in StatsValues
                /\ t_pc' = "bn_format"
                /\ UNCHANGED <<t_fault, t_result>>
           ELSE /\ HandlerFault(MakeRequestError(o), t_symbol)
                /\ t_stats' = t_stats
    /\ UNCHANGED <<t_tool, t_args, t_store_ok, t_runs, t_symbol, t_docs, proc,
                   str_hash, rej_log>>
    /\ UNCHANGED agentVars
    /\ UNCHANGED kbVars

\* binance_tool.py:183: float(stats_data.get("priceChangePercent", 0))
PriceChangePercent(stats) == IF stats.given THEN stats.value ELSE Num(0)

\* x > 0 and x < 0 on floats: both are False for not-a-number.
FloatGt0(x) == ~x.nan /\ x.milli > 0
FloatLt0(x) == ~x.nan /\ x.milli < 0

\* Zero counts as a rise.
Trend_Mutant(change) ==
    IF ~FloatLt0(change) THEN "up" ELSE "down"

\* binance_tool.py:186
Trend(change) ==
    IF FloatGt0(change) THEN "up" ELSE IF FloatLt0(change) THEN "down" ELSE "flat"

\* binance_tool.py:193: round(x, 2), to the nearest hundredth (a tie to the
\* even one); not-a-number stays not-a-number.
PyRound2(x) ==
    IF x.nan THEN x
    ELSE LET q == x.milli \div 10
             r == x.milli % 10
         IN  Num(10 * (IF r < 5 THEN q
                       ELSE IF r > 5 THEN q + 1
                       ELSE IF q % 2 = 0 THEN q ELSE q + 1))

\* binance_tool.py:183-213
BnFormat ==
    /\ t_pc = "bn_format"
    /\ IF ~t_stats.parses
       THEN HandlerFault("could not convert string to float", t_symbol)
       ELSE HandlerReturns(
              [kind |-> "json",
               body |-> [symbol |-> t_symbol,
                         price_change_percent_24h |->
                             PyRound2(PriceChangePercent(t_stats)),
                         trend |-> Trend(PriceChangePercent(t_stats)),
                         data_source |-> "Binance API", status |-> "LIVE"]])
    /\ UNCHANGED <<t_tool, t_args, t_store_ok, t_runs, t_symbol, t_upstream,
                   t_stats, t_docs, proc, str_hash, rej_log>>
    /\ UNCHANGED agentVars
    /\ UNCHANGED kbVars

(***************************************************************************)
(* KnowledgeBaseTool._run                                                  *)
(***************************************************************************)
\* kb_tool.py:95-96
KbCheck ==
    /\ t_pc = "kb_check"
    /\ IF ~t_store_ok
       THEN HandlerReturns(
              [kind |-> "text",
               body |-> <<"Knowledge base is not available. Please check the configuration.">>])
       ELSE /\ t_pc' = "kb_search"
            /\ UNCHANGED <<t_fault, t_result>>
    /\ UNCHANGED <<t_tool, t_args, t_store_ok, t_runs, t_symbol, t_upstream,
                   t_stats, t_docs, proc, str_hash, rej_log>>
    /\ UNCHANGED agentVars
    /\ UNCHANGED kbVars

\* What similarity_search(query, k) can return: at most k chunks, ranked.
SearchResults(k) ==
    {d \in UNION {[1..n -> Docs] : n \in 0..Min(k, Cardinality(Docs))} :
        \A i, j \in DOMAIN d : i # j => d[i] # d[j]}

\* kb_tool.py:100-103
KbSearch ==
    /\ t_pc = "kb_search"
    /\ \/ /\ HandlerFault("search failed", t_symbol)
          /\ t_docs' = t_docs
          /\ t_upstream' = Append(t_upstream, [endpoint |-> "similarity_search",
                                               outcome |-> "fault"])
       \/ \E d \in SearchResults(t_args.k) :
            /\ t_docs' = d
            /\ t_upstream' = Append(t_upstream, [endpoint |-> "similarity_search",
                                                 outcome |-> "ok"])
            /\ IF d = << >>
               THEN HandlerReturns(
                      [kind |-> "text",
                       body |-> <<"No relevant information found in the knowledge base.">>])
               ELSE /\ t_pc' = "kb_format"
                    /\ UNCHANGED <<t_fault, t_result>>
    /\ UNCHANGED <<t_tool, t_args, t_store_ok, t_runs, t_symbol, t_stats, proc,
                   str_hash, rej_log>>
    /\ UNCHANGED agentVars
    /\ UNCHANGED kbVars

\* enumerate(results) without its start value: numbered from 0.
FormatResults_Mutant(docs) ==
    [i \in DOMAIN docs |-> [result |-> i - 1, content |-> docs[i]]]

\* kb_tool.py:106-112
FormatResults(docs) == [i \in DOMAIN docs |-> [result |-> i, content |-> docs[i]]]

\* kb_tool.py:106-118; json.dumps raises on metadata it cannot serialise.
KbFormat ==
    /\ t_pc = "kb_format"
    /\ \/ HandlerFault("Object is not JSON serializable", t_symbol)
       \/ HandlerReturns(
            [kind |-> "json",
             body |-> [query |-> t_args.query,
                       results |-> FormatResults(t_docs),
                       total_results |-> Len(FormatResults(t_docs))]])
    /\ UNCHANGED <<t_tool, t_args, t_store_ok, t_runs, t_symbol, t_upstream,
                   t_stats, t_docs, proc, str_hash, rej_log>>
    /\ UNCHANGED agentVars
    /\ UNCHANGED kbVars

(***************************************************************************)
(* RejectionTool._run                                                      *)
(***************************************************************************)
\* rejection_tool.py:70-83, in the dict's (insertion) order
TopicKeywords ==
    << [keyword |-> <<"w", "e", "a", "t", "h", "e", "r">>, topic |-> "weather"],
       [keyword |-> <<"s", "p", "o", "r", "t">>, topic |-> "sports"],
       [keyword |-> <<"p", "o", "l", "i", "t", "i", "c">>, topic |-> "politics"],
       [keyword |-> <<"c", "o", "o", "k">>, topic |-> "cooking"],
       [keyword |-> <<"t", "r", "a", "v", "e", "l">>, topic |-> "travel"],
       [keyword |-> <<"h", "e", "a", "l", "t", "h">>, topic |-> "health"],
       [keyword |-> <<"m", "o", "v", "i", "e">>, topic |-> "entertainment"],
       [keyword |-> <<"b", "o", "o", "k">>, topic |-> "books"],
       [keyword |-> <<"m", "u", "s", "i", "c">>, topic |-> "music"],
       [keyword |-> <<"n", "e", "w", "s">>, topic |-> "general news"],
       [keyword |-> <<"s", "c", "i", "e", "n", "c", "e">>, topic |-> "science"],
       [keyword |-> <<"h", "i", "s", "t", "o", "r", "y">>, topic |-> "history"] >>

\* rejection_tool.py:85-89
RECURSIVE FirstTopic(_, _)
FirstTopic(table, query_lower) ==
    IF table = << >> THEN "general topics"
    ELSE IF IsSubstring(Head(table).keyword, query_lower)
         THEN Head(table).topic
         ELSE FirstTopic(Tail(table), query_lower)

\* The query is matched as typed, without lower-casing.
ExtractTopic_Mutant(query) == FirstTopic(TopicKeywords, query)

\* rejection_tool.py:66-89
ExtractTopic(query) == FirstTopic(TopicKeywords, PyLower(query))

\* rejection_tool.py:54-60: the number of message templates
NumResponses == 3

REDIRECT_URL == "https://automatealgos.in"

\* rejection_tool.py:54-60: the three f-strings, as the sequence of their
\* literal parts and interpolated values
Responses(topic) ==
    << <<"I'm specialized in cryptocurrency trading only! For **", topic,
         "** questions, check out: **", REDIRECT_URL,
         "** I can help with: ... What crypto trading topic can I assist with?">>,
       <<"I focus exclusively on crypto trading assistance! For **", topic,
         "** related queries, visit: **", REDIRECT_URL,
         "** I'm your go-to for: ... Any crypto trading questions?">>,
       <<"My expertise is cryptocurrency trading only! For **", topic,
         "** information, please see: **", REDIRECT_URL,
         "** I can help you with: ... What's your crypto trading question?">> >>

\* Python list indexing list[i]: a negative i counts from the end.
PyIndex(list, i) == IF i < 0 THEN list[Len(list) + i + 1] ELSE list[i + 1]

\* rejection_tool.py:64: responses[selection] (`selection` is kept with the
\* text returned)
RejectionMessage(selection, topic) ==
    [kind |-> "text",
     body |-> [selection |-> selection,
               text |-> PyIndex(Responses(topic), selection)]]

\* The remainder takes the sign of the dividend (C's %).
Selection_Mutant(h) == IF h < 0 THEN -((-h) % NumResponses) ELSE h % NumResponses

\* rejection_tool.py:63: hash(query) % len(responses), Python's % (the
\* result has the sign of the divisor)
Selection(h) == h % NumResponses

\* rejection_tool.py:52-64.  hash() of a str is salted per interpreter
\* process (PYTHONHASHSEED): any value, but one value per string for the
\* life of the process.
RjRun ==
    /\ t_pc = "rj_run"
    /\ \E h \in HashRange :
        /\ t_args.query \in DOMAIN str_hash => h = str_hash[t_args.query]
        /\ str_hash' = (t_args.query :> h) @@ str_hash
        /\ HandlerReturns(RejectionMessage(Selection(h), ExtractTopic(t_args.query)))
    /\ rej_log' = rej_log \cup {[query |-> t_args.query, output |-> t_result']}
    /\ UNCHANGED <<t_tool, t_args, t_store_ok, t_runs, t_symbol, t_upstream,
                   t_stats, t_docs, proc>>
    /\ UNCHANGED agentVars
    /\ UNCHANGED kbVars

\* The executor is handed the outcome and the next call can be dispatched.
NextCall ==
    /\ t_pc \in {"returned", "raised"}
    /\ t_pc' = "idle"
    /\ t_tool' = ""
    /\ t_args' = NoArgs
    /\ t_store_ok' = FALSE
    /\ t_runs' = 0
    /\ t_symbol' = << >>
    /\ t_upstream' = << >>
    /\ t_stats' = NoStats
    /\ t_docs' = << >>
    /\ t_fault' = ""
    /\ t_result' = NoResult
    /\ UNCHANGED <<proc, str_hash, rej_log>>
    /\ UNCHANGED agentVars
    /\ UNCHANGED kbVars

\* The program is stopped and started again: a new interpreter process.
Restart ==
    /\ t_pc = "idle"
    /\ proc < MaxProcs
    /\ proc' = proc + 1
    /\ str_hash' = << >>
    /\ UNCHANGED <<t_pc, t_tool, t_args, t_store_ok, t_runs, t_symbol,
                   t_upstream, t_stats, t_docs, t_fault, t_result, rej_log>>
    /\ UNCHANGED agentVars
    /\ UNCHANGED kbVars

(***************************************************************************)
(* The knowledge base: the vector store module, document ingestion, and    *)
(* the construction of an agent's tools.  Ingestion runs are started by    *)
(* POST /knowledge-base/ingest as background tasks of a plain function     *)
(* (endpoints.py:89-99), which the server runs on worker threads: runs     *)
(* interleave with one another and with the event loop at every access to  *)
(* the module's global and to the store.                                   *)
(***************************************************************************)
\* Number of ingestion runs started in a behaviour.
MaxRuns == 2
\* A run that finds documents splits them into 1..MaxChunks chunks.
MaxChunks == 2
\* Number of agents constructed in a behaviour.
MaxAgents == 2

Runs == 1..MaxRuns

\* settings.VECTOR_DB_TYPE: two supported types and one that is not.
DbTypes == {"chroma", "qdrant", "faiss"}
Supported(ty) == ty \in {"chroma", "qdrant"}

KB_DATA_DIR == "./data/knowledge_base"
CHROMA_PERSIST_DIRECTORY == "./data/chroma_db"
VECTOR_DB_COLLECTION == "crypto_knowledge"
\* The collection a Chroma store uses when it is given no collection_name.
ChromaDefaultCollection == "langchain"

\* A store is a collection at a location; NoStore is Python's None.
NoStore == [path |-> << >>, collection |-> ""]

\* vector_store.py:32-59 and 99-116: where get_vector_store opens the store
\* and where delete_collection deletes.
IngestStoreKey(ty) ==
    IF ty = "chroma"
    THEN [path |-> <<KB_DATA_DIR, "chroma">>, collection |-> VECTOR_DB_COLLECTION]
    ELSE IF ty = "qdrant"
    THEN [path |-> <<KB_DATA_DIR, "qdrant">>, collection |-> VECTOR_DB_COLLECTION]
    ELSE NoStore

\* kb_tool.py:60-70: where KnowledgeBaseTool opens its store.
ToolStoreKey(ty) ==
    IF ty = "chroma"
    THEN [path |-> <<CHROMA_PERSIST_DIRECTORY>>, collection |-> ChromaDefaultCollection]
    ELSE IF ty = "qdrant"
    THEN [path |-> <<"QDRANT_URL">>, collection |-> VECTOR_DB_COLLECTION]
    ELSE NoStore

\* kb_tool.py:55-82: the store, or None when the type is not supported or
\* opening it raised.
ToolStoreOutcomes(ty) ==
    {NoStore} \cup (IF Supported(ty) THEN {ToolStoreKey(ty)} ELSE {})

StoreKeys ==
    {IngestStoreKey(ty) : ty \in {"chroma", "qdrant"}}
        \cup {ToolStoreKey(ty) : ty \in {"chroma", "qdrant"}}

\* The chunks run t splits its documents into.
ChunksOf(t, k) == {<<t, j>> : j \in 1..k}

RegistrationOrder == <<"binance_price", "knowledge_base", "rejection_handler">>

KbInit ==
    /\ stores = [k \in StoreKeys |-> {}]
    /\ vs_made = << >>
    /\ vector_store_instance = 0
    /\ deletes = 0
    /\ writes = << >>
    /\ i_pc = [t \in Runs |-> "idle"]
    /\ i_reset = [t \in Runs |-> FALSE]
    /\ i_chunks = [t \in Runs |-> 0]
    /\ i_store = [t \in Runs |-> 0]
    /\ i_ret = [t \in Runs |-> -1]
    /\ c_pc = "idle"
    /\ c_tools = << >>
    /\ c_ok = {}
    /\ kb_tool = [built |-> FALSE]
    /\ agent_tools = << >>
    /\ kb_found = [kind |-> "none"]

IGoto(t, p) == i_pc' = [i_pc EXCEPT ![t] = p]

\* ingest.py:78-95: a run starts with its `reset` argument.
IngestStart(t) ==
    /\ i_pc[t] = "idle"
    /\ t > 1 => i_pc[t - 1] # "idle"
    /\ \E reset \in BOOLEAN :
        /\ i_reset' = [i_reset EXCEPT ![t] = reset]
        /\ IGoto(t, IF reset THEN "delete" ELSE "load")
    /\ UNCHANGED <<VECTOR_DB_TYPE, stores, vs_made, vector_store_instance,
                   deletes, writes, i_chunks, i_store, i_ret>>
    /\ UNCHANGED catalogVars
    /\ UNCHANGED <<agentVars, toolVars>>

\* vector_store.py:99-128: the stored collection is removed.
DeleteCollection_Remove(t) ==
    /\ i_pc[t] = "delete"
    /\ stores' = IF Supported(VECTOR_DB_TYPE)
                 THEN [stores EXCEPT ![IngestStoreKey(VECTOR_DB_TYPE)] = {}]
                 ELSE stores
    /\ IGoto(t, "reset_instance")
    /\ UNCHANGED <<VECTOR_DB_TYPE, vs_made, vector_store_instance, deletes,
                   writes, i_reset, i_chunks, i_store, i_ret>>
    /\ UNCHANGED catalogVars
    /\ UNCHANGED <<agentVars, toolVars>>

\* vector_store.py:131
DeleteCollection_Reset(t) ==
    /\ i_pc[t] = "reset_instance"
    /\ vector_store_instance' = 0
    /\ deletes' = deletes + 1
    /\ IGoto(t, "load")
    /\ UNCHANGED <<VECTOR_DB_TYPE, stores, vs_made, writes, i_reset, i_chunks,
                   i_store, i_ret>>
    /\ UNCHANGED catalogVars
    /\ UNCHANGED <<agentVars, toolVars>>

\* ingest.py:98-105: the directory yields no document and 0 is returned, or
\* its documents are split into chunks.
LoadDocuments(t) ==
    /\ i_pc[t] = "load"
    /\ \/ /\ i_ret' = [i_ret EXCEPT ![t] = 0]
          /\ IGoto(t, "done")
          /\ UNCHANGED i_chunks
       \/ \E k \in 1..MaxChunks :
            /\ i_chunks' = [i_chunks EXCEPT ![t] = k]
            /\ IGoto(t, "get_store")
            /\ UNCHANGED i_ret
    /\ UNCHANGED <<VECTOR_DB_TYPE, stores, vs_made, vector_store_instance,
                   deletes, writes, i_reset, i_store>>
    /\ UNCHANGED catalogVars
    /\ UNCHANGED <<agentVars, toolVars>>

\* vector_store.py:88, 25-26: the cached instance is returned if there is one.
GetVectorStore_Check(t) ==
    /\ i_pc[t] = "get_store"
    /\ IF vector_store_instance # 0
       THEN /\ i_store' = [i_store EXCEPT ![t] = vector_store_instance]
            /\ IGoto(t, "write")
       ELSE /\ IGoto(t, "construct")
            /\ UNCHANGED i_store
    /\ UNCHANGED <<VECTOR_DB_TYPE, stores, vs_made, vector_store_instance,
                   deletes, writes, i_reset, i_chunks, i_ret>>
    /\ UNCHANGED catalogVars
    /\ UNCHANGED <<agentVars, toolVars>>

\* vector_store.py:29-77: a store instance is built and assigned to the
\* global, or ValueError is raised for an unsupported type.
GetVectorStore_Construct(t) ==
    /\ i_pc[t] = "construct"
    /\ IF Supported(VECTOR_DB_TYPE)
       THEN /\ vs_made' = Append(vs_made,
                             [key |-> IngestStoreKey(VECTOR_DB_TYPE),
                              epoch |-> deletes, run |-> t])
            /\ vector_store_instance' = Len(vs_made) + 1
            /\ IGoto(t, "return_store")
       ELSE /\ IGoto(t, "failed")
            /\ UNCHANGED <<vs_made, vector_store_instance>>
    /\ UNCHANGED <<VECTOR_DB_TYPE, stores, deletes, writes, i_reset, i_chunks,
                   i_store, i_ret>>
    /\ UNCHANGED catalogVars
    /\ UNCHANGED <<agentVars, toolVars>>

\* vector_store.py:79: the global is read again for the return value.
GetVectorStore_Return(t) ==
    /\ i_pc[t] = "return_store"
    /\ i_store' = [i_store EXCEPT ![t] = vector_store_instance]
    /\ IGoto(t, "write")
    /\ UNCHANGED <<VECTOR_DB_TYPE, stores, vs_made, vector_store_instance,
                   deletes, writes, i_reset, i_chunks, i_ret>>
    /\ UNCHANGED catalogVars
    /\ UNCHANGED <<agentVars, toolVars>>

\* vector_store.py:89-93 and ingest.py:110: the chunks are added through the
\* instance and their number is returned.  None has no add_documents; what
\* an instance does whose collection was deleted under it is the store
\* library's: the chunks land in its location or the call raises.
AddDocuments_Write(t) ==
    /\ i_pc[t] = "write"
    /\ IF i_store[t] = 0
       THEN /\ IGoto(t, "failed")
            /\ UNCHANGED <<stores, writes, i_ret>>
       ELSE /\ writes' = Append(writes, [run |-> t, instance |-> i_store[t],
                                         deletes |-> deletes])
            /\ \/ /\ stores' = [stores EXCEPT ![vs_made[i_store[t]].key] =
                                   @ \cup ChunksOf(t, i_chunks[t])]
                  /\ i_ret' = [i_ret EXCEPT ![t] = i_chunks[t]]
                  /\ IGoto(t, "done")
               \/ /\ vs_made[i_store[t]].epoch < deletes
                  /\ IGoto(t, "failed")
                  /\ UNCHANGED <<stores, i_ret>>
    /\ UNCHANGED <<VECTOR_DB_TYPE, vs_made, vector_store_instance, deletes,
                   i_reset, i_chunks, i_store>>
    /\ UNCHANGED catalogVars
    /\ UNCHANGED <<agentVars, toolVars>>

(***************************************************************************)
(* CryptoAgent._initialize_tools.                                          *)
(***************************************************************************)
\* A tool that fails to initialize empties the list.
AfterInit_Mutant(tools, name, ok) == IF ok THEN Append(tools, name) ELSE << >>

\* agent.py:36-41 (and 43-48, 50-55): the tool is appended if its constructor
\* returns; if it raises, the exception is printed and the list is left.
AfterInit(tools, name, ok) == IF ok THEN Append(tools, name) ELSE tools

\* agent.py:34
StartInitializeTools ==
    /\ c_pc = "idle"
    /\ Len(agent_tools) < MaxAgents
    /\ c_tools' = << >>
    /\ c_ok' = {}
    /\ c_pc' = "binance"
    /\ UNCHANGED <<kb_tool, agent_tools, kb_found>>
    /\ UNCHANGED storeVars
    /\ UNCHANGED <<agentVars, toolVars>>

\* agent.py:36-41
InitBinanceTool ==
    /\ c_pc = "binance"
    /\ \E ok \in BOOLEAN :
        /\ c_tools' = AfterInit(c_tools, "binance_price", ok)
        /\ c_ok' = IF ok THEN c_ok \cup {"binance_price"} ELSE c_ok
    /\ c_pc' = "kb"
    /\ UNCHANGED <<kb_tool, agent_tools, kb_found>>
    /\ UNCHANGED storeVars
    /\ UNCHANGED <<agentVars, toolVars>>

\* kb_tool.py:48-82: the constructor opens the tool's store; None is kept
\* when the type is not supported or opening raised.
KnowledgeBaseTool_init ==
    \E vs \in ToolStoreOutcomes(VECTOR_DB_TYPE) :
        kb_tool' = [built |-> TRUE, vector_store |-> vs]

\* agent.py:43-48: the constructor returns, or raises.
InitKbTool ==
    /\ c_pc = "kb"
    /\ \E ok \in BOOLEAN :
        /\ c_tools' = AfterInit(c_tools, "knowledge_base", ok)
        /\ c_ok' = IF ok THEN c_ok \cup {"knowledge_base"} ELSE c_ok
        /\ IF ok THEN KnowledgeBaseTool_init
           ELSE kb_tool' = kb_tool
    /\ c_pc' = "rejection"
    /\ UNCHANGED <<agent_tools, kb_found>>
    /\ UNCHANGED storeVars
    /\ UNCHANGED <<agentVars, toolVars>>

\* agent.py:50-55
InitRejectionTool ==
    /\ c_pc = "rejection"
    /\ \E ok \in BOOLEAN :
        /\ c_tools' = AfterInit(c_tools, "rejection_handler", ok)
        /\ c_ok' = IF ok THEN c_ok \cup {"rejection_handler"} ELSE c_ok
    /\ c_pc' = "return"
    /\ UNCHANGED <<kb_tool, agent_tools, kb_found>>
    /\ UNCHANGED storeVars
    /\ UNCHANGED <<agentVars, toolVars>>

\* agent.py:61, 27: the list becomes the agent's `tools`.
ReturnTools ==
    /\ c_pc = "return"
    /\ agent_tools' = Append(agent_tools, [tools |-> c_tools, ok |-> c_ok])
    /\ c_pc' = "idle"
    /\ UNCHANGED <<c_tools, c_ok, kb_tool, kb_found>>
    /\ UNCHANGED storeVars
    /\ UNCHANGED <<agentVars, toolVars>>

\* A KnowledgeBaseTool is built (as for an agent of the chat service).
KbToolOpen ==
    /\ KnowledgeBaseTool_init
    /\ UNCHANGED <<c_pc, c_tools, c_ok, agent_tools, kb_found>>
    /\ UNCHANGED storeVars
    /\ UNCHANGED <<agentVars, toolVars>>

\* kb_tool.py:95-103: a search through the store the tool opened.
KbToolSearch ==
    /\ kb_tool.built
    /\ kb_found' =
          IF kb_tool.vector_store = NoStore
          THEN [kind |-> "unavailable"]
          ELSE [kind |-> "results", found |-> stores[kb_tool.vector_store]]
    /\ UNCHANGED <<c_pc, c_tools, c_ok, kb_tool, agent_tools>>
    /\ UNCHANGED storeVars
    /\ UNCHANGED <<agentVars, toolVars>>

\* config.py:28: the vector store type when the environment sets none.
DefaultDbType == "chroma"

Init == AgentInit /\ ToolInit /\ KbInit /\ VECTOR_DB_TYPE = DefaultDbType

\* One tool call, from the model's request to its outcome.
ToolNext ==
    \/ \E i \in DOMAIN ToolNames : InvokeTool(ToolNames[i])
    \/ ValidateArgs
    \/ BnValidate
    \/ BnPrice
    \/ BnStats
    \/ BnFormat
    \/ KbCheck
    \/ KbSearch
    \/ KbFormat
    \/ RjRun

ToolSpec == Init /\ [][ToolNext]_vars

\* Rejection calls over several runs of the program.
RejectionNext ==
    \/ InvokeTool("rejection_handler")
    \/ ValidateArgs
    \/ RjRun
    \/ NextCall
    \/ Restart

RejectionSpec == Init /\ [][RejectionNext]_vars

\* The chat service: requests to /chat on one event loop.
Spec == Init /\ [][AgentNext]_vars

\* The knowledge base: ingestion runs on worker threads and the knowledge
\* tool's searches, under every vector store type.
KbNext ==
    \/ \E t \in Runs : IngestStart(t)
    \/ \E t \in Runs : DeleteCollection_Remove(t)
    \/ \E t \in Runs : DeleteCollection_Reset(t)
    \/ \E t \in Runs : LoadDocuments(t)
    \/ \E t \in Runs : GetVectorStore_Check(t)
    \/ \E t \in Runs : GetVectorStore_Construct(t)
    \/ \E t \in Runs : GetVectorStore_Return(t)
    \/ \E t \in Runs : AddDocuments_Write(t)
    \/ KbToolOpen
    \/ KbToolSearch

KbSpecInit == AgentInit /\ ToolInit /\ KbInit /\ VECTOR_DB_TYPE \in DbTypes

KbSpec == KbSpecInit /\ [][KbNext]_vars

\* The construction of the agents' tool lists, one agent after another.
CatalogNext ==
    \/ StartInitializeTools
    \/ InitBinanceTool
    \/ InitKbTool
    \/ InitRejectionTool
    \/ ReturnTools

CatalogSpec == KbSpecInit /\ [][CatalogNext]_vars

(***************************************************************************)
(* Properties of the conversation memory.                                  *)
(***************************************************************************)
ExchangeTurns(e) ==
    << [role |-> "human", content |-> e.user],
       [role |-> "assistant", content |-> e.assistant] >>

RECURSIVE TurnsOf(_)
TurnsOf(exchanges) ==
    IF exchanges = << >> THEN << >>
    ELSE ExchangeTurns(Head(exchanges)) \o TurnsOf(Tail(exchanges))

LastExchanges(exchanges, n) ==
    SubSeq(exchanges, Len(exchanges) - n + 1, Len(exchanges))

\* Some request is between the first append and the end of _update_memory on
\* agent a.
MidUpdate(a) == \E r \in Requests : agent[r] = a /\ pc[r] \in {"append_assistant", "trim"}

InProcessMessage(r) ==
    pc[r] \in {"format", "awaiting_model", "executing_tools", "update_memory",
               "append_assistant", "trim", "return"}

\* C1: after each _update_memory, with N exchanges written and window W, the
\* memory is exactly the turns of the most recent min(N, W) exchanges, oldest
\* first (so it holds min(2N, 2W) turns), for every W including 0.
C1_MemoryBound ==
    \A a \in DOMAIN memory :
        ~MidUpdate(a) =>
            memory[a] = TurnsOf(LastExchanges(log[a],
                                              Min(Len(log[a]), MEMORY_WINDOW)))

C2_Inv ==
    /\ \A r \in Requests :
        pc[r] = "trim" =>
            LET m == memory[agent[r]]
            IN  /\ Len(m) >= 2
                /\ m[Len(m) - 1] = [role |-> "human", content |-> message[r]]
                /\ m[Len(m)] = [role |-> "assistant", content |-> output[r]]
    /\ \A a \in DOMAIN memory : \A i \in DOMAIN memory[a] :
        memory[a][i].role \in {"human", "assistant"}

C2_Step ==
    /\ \A a \in DOMAIN memory :
        memory'[a] # memory[a] =>
            \E r \in Requests :
                /\ agent[r] = a
                /\ \/ /\ pc[r] = "update_memory" /\ pc'[r] = "append_assistant"
                      /\ Len(memory'[a]) = Len(memory[a]) + 1
                   \/ /\ pc[r] = "append_assistant" /\ pc'[r] = "trim"
                      /\ Len(memory'[a]) = Len(memory[a]) + 1
                   \/ /\ pc[r] = "trim" /\ pc'[r] = "return"
                      /\ \E k \in 0..Len(memory[a]) :
                            memory'[a] = SubSeq(memory[a], k + 1, Len(memory[a]))
    /\ \A r \in Requests :
        pc[r] = "return" /\ pc'[r] = "done" =>
            /\ response'[r].kind = "ok"
            /\ response'[r].response = output[r]

\* C2: a process_message that completes has appended, before the trim, one
\* human turn with the request's text followed by one assistant turn with the
\* text it returns; memory holds no other kind of turn and changes at no other
\* step of an exchange, however many tool round-trips the exchange made.
C2_OneExchangeAppended == []C2_Inv /\ [][C2_Step]_vars

\* An exchange stopped at the ceiling (so after MaxIterations tool
\* round-trips) has appended its two turns and is about to trim.
C2_Witness ==
    \E r \in Requests : pc[r] = "trim" /\ output[r] = STOPPED

ExecutorFailed(r) ==
    pc[r] = "failed" /\ response[r].detail[2] \in {"ModelUnavailable", "ToolError"}

C3_Step ==
    \A r \in Requests :
        (pc[r] \in {"awaiting_model", "executing_tools"} /\ pc'[r] = "failed")
            => memory' = memory

C3_Inv ==
    \A r \in Requests :
        ExecutorFailed(r) =>
            \A a \in DOMAIN log : \A i \in DOMAIN log[a] : log[a][i].req # r

\* C3: the step at which the executor call of an exchange fails leaves every
\* memory as it was, and an exchange that failed this way has written nothing
\* to memory at any earlier step.
C3_FailureNotPersisted == []C3_Inv /\ [][C3_Step]_vars

\* The model call of an exchange failed on a session whose memory holds an
\* earlier exchange.
C3_Witness ==
    \E r \in Requests :
        /\ pc[r] = "failed"
        /\ response[r].detail[2] = "ModelUnavailable"
        /\ memory[agent[r]] # << >>

\* C4: at most one process_message execution is in flight per session at a
\* time.
C4_Serialized ==
    \A r1, r2 \in Requests :
        (r1 # r2 /\ session_id[r1] = session_id[r2] /\ InProcessMessage(r1))
            => ~InProcessMessage(r2)

\* C5: whenever no _update_memory is under way on an agent, its memory is the
\* turns of the last k exchanges written to it, in the order they were
\* written, each human turn directly followed by its assistant turn, and k is
\* at least min(N, W): only the oldest exchanges are ever missing.
C5_WritesDoNotInterleave ==
    \A a \in DOMAIN memory :
        ~MidUpdate(a) =>
            \E k \in Min(Len(log[a]), MEMORY_WINDOW)..Len(log[a]) :
                memory[a] = TurnsOf(LastExchanges(log[a], k))

\* Two exchanges of one session overlap: one has just written its turns
\* while the other, which already has its answer, has yet to write.
C5_Witness ==
    \E r1, r2 \in Requests :
        /\ r1 # r2
        /\ agent[r1] = agent[r2]
        /\ pc[r1] = "update_memory"
        /\ pc[r2] = "return"

C6_Inv == \A r \in Requests : iterations[r] <= MaxIterations

C6_Step ==
    \A r \in Requests :
        (pc[r] = "awaiting_model" /\ iterations[r] >= MaxIterations /\ pc'[r] # pc[r])
            => (pc'[r] = "update_memory" /\ output'[r] = STOPPED)

\* C6: an exchange never makes more than MaxIterations tool round-trips, and
\* once it has made that many the executor's only step is to return its
\* stopped answer.
C6_LoopTerminates == []C6_Inv /\ [][C6_Step]_vars

\* An exchange was stopped at the ceiling and holds the stopped answer.
C6_Witness ==
    \E r \in Requests : pc[r] = "update_memory" /\ output[r] = STOPPED

(***************************************************************************)
(* Properties of the tools.                                                *)
(***************************************************************************)
IsFailureValue(tool, result) ==
    \/ /\ tool = "binance_price"
       /\ result.kind = "json"
       /\ result.body.error = TRUE
       /\ result.body.status = "ERROR"
    \/ /\ tool = "knowledge_base"
       /\ result.kind = "text"
       /\ result.body[1] = "Error searching knowledge base: "

\* C7: once a tool's _run has been entered the call never ends by raising,
\* and when a fault was raised inside _run the call has returned a failure
\* value.
C7_ToolIsolation ==
    /\ t_runs > 0 => t_pc # "raised"
    /\ t_fault \notin {"", "ValidationError"} =>
            (t_pc = "returned" /\ IsFailureValue(t_tool, t_result))

\* The second upstream request of a market-data call timed out and the call
\* returned.
C7_Witness ==
    /\ t_tool = "binance_price"
    /\ Len(t_upstream) = 2
    /\ t_fault = "Request timed out - Binance API might be slow"
    /\ t_pc = "returned"

\* C8: a tool call whose arguments lack a required field ends by returning a
\* Failure of kind InvalidArguments, and _run was not entered.
C8_InvalidArguments ==
    (t_pc \notin {"idle", "validate_args"} /\ ~(RequiredFields(t_tool) \subseteq t_args.given))
        => /\ t_pc = "returned"
           /\ t_result = [kind |-> "Failure", error_kind |-> "InvalidArguments"]
           /\ t_runs = 0

\* C9: a market-data call whose symbol, upper-cased and trimmed, is empty or
\* shorter than 6 returns the error payload and has made no upstream request.
C9_NoUpstreamOnInvalidSymbol ==
    (/\ t_tool = "binance_price"
     /\ t_pc \notin {"idle", "validate_args", "bn_validate", "raised"}
     /\ Len(PyStrip(PyUpper(t_args.symbol))) < 6)
        => /\ t_pc = "returned"
           /\ t_result.kind = "json"
           /\ t_result.body.error = TRUE
           /\ t_result.body.status = "ERROR"
           /\ t_upstream = << >>

\* A symbol of 6 or more characters that trimming makes too short was
\* rejected without an upstream request.
C9_Witness ==
    /\ t_tool = "binance_price"
    /\ t_pc = "returned"
    /\ Len(t_args.symbol) >= 6
    /\ t_symbol # << >>
    /\ Len(t_symbol) < 6
    /\ t_upstream = << >>

\* C10: any two rejection calls with the same query, in the same or in
\* different runs of the program, returned the same output.
C10_Deterministic ==
    \A x, y \in rej_log : x.query = y.query => x.output = y.output

\* The category the keyword table gives a query: that of the first entry, in
\* table order, whose keyword is in the lower-cased query.
TopicHits(query) ==
    {i \in DOMAIN TopicKeywords : IsSubstring(TopicKeywords[i].keyword, PyLower(query))}

DetectedTopic(query) ==
    IF TopicHits(query) = {} THEN "general topics"
    ELSE TopicKeywords[CHOOSE i \in TopicHits(query) :
                          \A j \in TopicHits(query) : i <= j].topic

\* C11: the topic in a returned rejection message is the category of the
\* first table entry whose keyword occurs in the lower-cased query, wherever
\* in the query it occurs, and "general topics" when none occurs.
C11_FirstMatchWins ==
    (t_tool = "rejection_handler" /\ t_pc = "returned")
        => t_result.body.text[2] = DetectedTopic(t_args.query)

\* "news on SPORT": the later table entry "news" occurs first in the query
\* and the earlier entry "sport" only after lower-casing; the topic is sports.
C11_Witness ==
    /\ t_tool = "rejection_handler"
    /\ t_pc = "returned"
    /\ t_args.query = QNewsSport
    /\ t_result.body.text[2] = "sports"

\* C12: a rejection call that was given a query returns one of the three
\* templates, selected by an index in 0..2 also when the hash is negative,
\* and the text holds the detected topic and the redirect URL.
C12_OneOfThreeTemplates ==
    (t_tool = "rejection_handler" /\ t_pc \in {"returned", "raised"}
        /\ "query" \in t_args.given)
        => /\ t_pc = "returned"
           /\ t_result.kind = "text"
           /\ t_result.body.selection \in 0..2
           /\ \E n \in 1..3 :
                t_result.body.text = Responses(DetectedTopic(t_args.query))[n]
           /\ \E i \in DOMAIN t_result.body.text :
                t_result.body.text[i] = DetectedTopic(t_args.query)
           /\ \E i \in DOMAIN t_result.body.text :
                t_result.body.text[i] = "https://automatealgos.in"

\* A query whose hash is negative got the third template.
C12_Witness ==
    /\ t_tool = "rejection_handler"
    /\ t_pc = "returned"
    /\ str_hash[t_args.query] < 0
    /\ t_result.body.selection = 2

\* A market-data call returned its payload of live data.
LivePayload ==
    /\ t_tool = "binance_price"
    /\ t_pc = "returned"
    /\ t_result.kind = "json"
    /\ t_result.body.status = "LIVE"

\* The change percent the tool parsed from the 24hr response (0 when the
\* response has no such field).
ParsedChange == IF t_stats.given THEN t_stats.value ELSE [nan |-> FALSE, milli |-> 0]

\* C13 as stated: in a live payload the trend is up iff the change percent
\* is > 0, down iff it is < 0, and flat iff it is == 0.
C13_TrendIffSign ==
    LivePayload =>
        /\ t_result.body.trend = "up" <=> (~ParsedChange.nan /\ ParsedChange.milli > 0)
        /\ t_result.body.trend = "down" <=> (~ParsedChange.nan /\ ParsedChange.milli < 0)
        /\ t_result.body.trend = "flat" <=> (~ParsedChange.nan /\ ParsedChange.milli = 0)

\* C13, amended: in a live payload the trend is up iff the parsed change
\* percent is > 0, down iff it is < 0, and flat iff it is neither, that is
\* when it is 0 (also by default) or not a number.
C13_TrendBySign ==
    LivePayload =>
        /\ t_result.body.trend \in {"up", "down", "flat"}
        /\ t_result.body.trend = "up" <=> (~ParsedChange.nan /\ ParsedChange.milli > 0)
        /\ t_result.body.trend = "down" <=> (~ParsedChange.nan /\ ParsedChange.milli < 0)
        /\ t_result.body.trend = "flat" <=> (ParsedChange.nan \/ ParsedChange.milli = 0)

\* A live payload whose change percent is not a number has the flat trend.
C13_Witness ==
    /\ LivePayload
    /\ t_stats.given
    /\ t_stats.value.nan
    /\ t_result.body.trend = "flat"

\* C14: when either upstream request of a market-data call failed, in any
\* of the six ways, the call has returned the error payload (error true,
\* status ERROR, the symbol, a message) and has not raised; a payload with
\* status LIVE is returned only after both requests succeeded.
C14_UpstreamFailure ==
    /\ (t_tool = "binance_price"
        /\ \E i \in DOMAIN t_upstream : t_upstream[i].outcome # "ok")
        => /\ t_pc = "returned"
           /\ t_result.kind = "json"
           /\ t_result.body.error = TRUE
           /\ t_result.body.status = "ERROR"
           /\ t_result.body.symbol = PyStrip(PyUpper(t_args.symbol))
           /\ t_result.body.message # ""
    /\ LivePayload
        => /\ Len(t_upstream) = 2
           /\ t_upstream[1] = [endpoint |-> "/api/v3/ticker/price", outcome |-> "ok"]
           /\ t_upstream[2] = [endpoint |-> "/api/v3/ticker/24hr", outcome |-> "ok"]

\* The price request succeeded, the 24hr request was answered with HTTP 429,
\* and the call returned.
C14_Witness ==
    /\ t_tool = "binance_price"
    /\ Len(t_upstream) = 2
    /\ t_upstream[2].outcome = "http_429"
    /\ t_pc = "returned"

KbUnavailableText == <<"Knowledge base is not available. Please check the configuration.">>
KbNoResultsText == <<"No relevant information found in the knowledge base.">>

\* (a) the index is unavailable: the unavailability message, no search made
KbOutcomeUnavailable ==
    /\ ~t_store_ok
    /\ t_result = [kind |-> "text", body |-> KbUnavailableText]
    /\ t_upstream = << >>

\* (b) the search returned nothing: the "no results" message
KbOutcomeNoResults ==
    /\ t_store_ok
    /\ t_upstream = <<[endpoint |-> "similarity_search", outcome |-> "ok"]>>
    /\ t_docs = << >>
    /\ t_result = [kind |-> "text", body |-> KbNoResultsText]

\* (c) the n >= 1 chunks the search returned, n <= k, numbered 1..n in the
\* order returned, with total_results = n
KbOutcomeRanked ==
    /\ t_store_ok
    /\ t_upstream = <<[endpoint |-> "similarity_search", outcome |-> "ok"]>>
    /\ t_result.kind = "json"
    /\ t_result.body.query = t_args.query
    /\ Len(t_result.body.results) = Len(t_docs)
    /\ Len(t_docs) \in 1..t_args.k
    /\ \A i \in 1..Len(t_docs) :
        /\ t_result.body.results[i].result = i
        /\ t_result.body.results[i].content = t_docs[i]
    /\ t_result.body.total_results = Len(t_docs)

\* (d) a fault was raised by the search (or while its results were being
\* formatted): the error message
KbOutcomeError ==
    /\ t_store_ok
    /\ t_fault \notin {"", "ValidationError"}
    /\ t_result.kind = "text"
    /\ Len(t_result.body) = 2
    /\ t_result.body[1] = "Error searching knowledge base: "
    /\ t_result.body[2] = t_fault

\* C15: a knowledge-base call that was given a query ends by returning, never
\* by raising, and what it returns is exactly one of the unavailability
\* message (no search made), the "no results" message, the ranked list of at
\* most k results numbered 1..n with total_results = n, or the error message.
C15_KnowledgeOutcomes ==
    /\ (/\ t_tool = "knowledge_base"
        /\ "query" \in t_args.given
        /\ t_pc \in {"returned", "raised"})
        => /\ t_pc = "returned"
           /\ t_result # [kind |-> "none"]
           /\ Cardinality({o \in {"a", "b", "c", "d"} :
                             \/ (o = "a" /\ KbOutcomeUnavailable)
                             \/ (o = "b" /\ KbOutcomeNoResults)
                             \/ (o = "c" /\ KbOutcomeRanked)
                             \/ (o = "d" /\ KbOutcomeError)}) = 1
    /\ (/\ t_tool = "knowledge_base"
        /\ t_pc = "returned"
        /\ t_upstream = <<[endpoint |-> "similarity_search", outcome |-> "fault"]>>)
        => KbOutcomeError

\* A call with k = 2 returned both chunks the search gave, numbered 1 and 2.
C15_Witness ==
    /\ t_tool = "knowledge_base"
    /\ t_pc = "returned"
    /\ t_args.k = 2
    /\ KbOutcomeRanked
    /\ t_result.body.total_results = 2

(***************************************************************************)
(* Properties of the /chat boundary and of the session map.                *)
(***************************************************************************)
\* The texts of the exceptions raised inside chat()'s try block.
InternalErrorTexts == {"AgentInitError", "ModelUnavailable", "ToolError"}

\* Request r has been answered.
Answered(r) == pc[r] \in {"done", "failed"}

\* C16: what a chat request that faulted returns to its caller does not
\* include the text of the internal exception.
C16_NoRawErrorText ==
    \A r \in Requests :
        pc[r] = "failed" =>
            \A i \in DOMAIN response[r].detail :
                response[r].detail[i] \notin InternalErrorTexts

\* C17: every answered chat request got an object with the request's
\* session_id, a response text and a status, and the status is "success"
\* exactly when processing completed without a fault.
C17_WellFormedResponse ==
    \A r \in Requests :
        Answered(r) =>
            /\ {"session_id", "response", "status"} \subseteq DOMAIN response[r]
            /\ response[r].session_id = session_id[r]
            /\ response[r].status = "success" <=> pc[r] = "done"

C18_Step ==
    /\ \A s \in DOMAIN chat_sessions :
        /\ s \in DOMAIN chat_sessions'
        /\ chat_sessions'[s] = chat_sessions[s]
    /\ \A s \in DOMAIN chat_sessions' :
        s \notin DOMAIN chat_sessions =>
            \E r \in Requests :
                /\ session_id[r] = s
                /\ pc[r] = "create"
                /\ agent'[r] = chat_sessions'[s]
                /\ memory'[chat_sessions'[s]] = << >>
    /\ \A a \in DOMAIN memory : a \in DOMAIN memory'

C18_Inv ==
    \A r \in Requests :
        (InProcessMessage(r) \/ pc[r] = "done") =>
            /\ session_id[r] \in DOMAIN chat_sessions
            /\ agent[r] = chat_sessions[session_id[r]]

\* C18: a session_id enters the session map at the first request that
\* carries it, with a new agent whose memory is empty; from then on it stays
\* in the map and maps to that same agent, which every later request with
\* that session_id is given; no step removes or replaces an entry.
C18_SessionLifecycle == []C18_Inv /\ [][C18_Step]_vars

\* A second request of a session was given the agent the first one created,
\* with the memory the first exchange left in it.
C18_Witness ==
    \E r1, r2 \in Requests :
        /\ r1 # r2
        /\ session_id[r1] = session_id[r2]
        /\ pc[r1] = "done"
        /\ response[r1].kind = "ok"
        /\ pc[r2] = "format"
        /\ agent[r2] = agent[r1]
        /\ memory[agent[r2]] # << >>

C19_Step ==
    \A a \in DOMAIN memory :
        memory'[a] # memory[a] =>
            \E r \in Requests :
                /\ pc'[r] # pc[r]
                /\ session_id[r] \in DOMAIN chat_sessions
                /\ chat_sessions[session_id[r]] = a

C19_Inv ==
    /\ \A s1, s2 \in DOMAIN chat_sessions :
        s1 # s2 => chat_sessions[s1] # chat_sessions[s2]
    /\ \A s \in DOMAIN chat_sessions :
        \A i \in DOMAIN log[chat_sessions[s]] :
            session_id[log[chat_sessions[s]][i].req] = s

\* C19: two sessions never share an agent; a step that changes a session's
\* memory is a step of a request submitted under that session_id, so the
\* exchanges of a session leave every other session's memory unchanged; and
\* the exchanges written to a session's memory were all submitted under its
\* session_id.
C19_SessionIndependence == []C19_Inv /\ [][C19_Step]_vars

\* Exchanges of two sessions overlap: one has just written its memory while
\* the other, which has its answer, has yet to write its own.
C19_Witness ==
    \E r1, r2 \in Requests :
        /\ session_id[r1] # session_id[r2]
        /\ pc[r1] = "return"
        /\ pc[r2] = "update_memory"
        /\ agent[r1] # agent[r2]
        /\ memory[agent[r1]] # << >>
        /\ memory[agent[r2]] = << >>

C20_Inv ==
    \A r \in Requests :
        (pc[r] = "return" /\ output[r] = STOPPED) =>
            LET m == memory[agent[r]]
            IN  /\ Len(m) >= 2
                /\ m[Len(m) - 1] = [role |-> "human", content |-> message[r]]
                /\ m[Len(m)] = [role |-> "assistant", content |-> STOPPED]

C20_Step ==
    \A r \in Requests :
        (pc[r] = "return" /\ pc'[r] # "return" /\ output[r] = STOPPED) =>
            /\ pc'[r] = "done"
            /\ response'[r] = [kind |-> "ok", session_id |-> session_id[r],
                               response |-> STOPPED, status |-> "success"]

\* C20: when the executor stopped at its ceiling, process_message returns
\* only after the user's text and the stopped answer have been appended to
\* the session's memory as its last two turns, and the stopped answer is what
\* the caller gets.
C20_DegradedAnswerPersisted == []C20_Inv /\ [][C20_Step]_vars

\* A request answered with the stopped answer, which is the last assistant
\* turn of its session's memory.
C20_Witness ==
    \E r \in Requests :
        /\ pc[r] = "done"
        /\ response[r].kind = "ok"
        /\ response[r].response = STOPPED
        /\ Len(memory[agent[r]]) >= 2
        /\ memory[agent[r]][Len(memory[agent[r]])] =
              [role |-> "assistant", content |-> STOPPED]

(***************************************************************************)
(* Further properties of the exchange.                                     *)
(***************************************************************************)
C21_Inv ==
    \A r \in Requests :
        last_model[r] = "failed" =>
            /\ pc[r] = "failed"
            /\ response[r].kind = "http_error"
            /\ response[r].status_code = 500
            /\ "response" \notin DOMAIN response[r]
            /\ output[r] = ""

C21_Step ==
    \A r \in Requests :
        last_model[r] = "failed" =>
            /\ pc'[r] = pc[r]
            /\ last_model'[r] = "failed"
            /\ response'[r] = response[r]

MessageTypeOf(role) ==
    IF role = "human" THEN "HumanMessage"
    ELSE IF role = "assistant" THEN "AIMessage"
    ELSE "none"

C22_Step ==
    \A r \in Requests :
        (pc[r] = "format" /\ pc'[r] = "awaiting_model") =>
            LET mem == memory[agent[r]]
                h   == chat_history'[r]
            IN  /\ memory' = memory
                /\ Len(h) = Len(mem)
                /\ \A i \in 1..Len(mem) :
                       /\ h[i].type = MessageTypeOf(mem[i].role)
                       /\ h[i].type # "none"
                       /\ h[i].content = mem[i].content

C22_Inv ==
    \A r \in Requests :
        prompt[r] # << >> =>
            LET n == Len(chat_history[r])
            IN  /\ Len(prompt[r]) >= n + 2
                /\ prompt[r][1].type = "SystemMessage"
                /\ \A i \in 1..n : prompt[r][i + 1] = chat_history[r][i]
                /\ prompt[r][n + 2] =
                       [type |-> "HumanMessage", content |-> message[r]]
                /\ \A i \in (n + 3)..Len(prompt[r]) :
                       prompt[r][i].type \in {"AIMessage", "ToolMessage"}

\* C22: the chat history built for an exchange has one message per turn of
\* the memory it is built from, in the same order and with the same role and
\* content; building it leaves every memory unchanged; and in the messages
\* handed to the model it stands after the system instructions and before
\* the new user turn, which the tool round-trips of the exchange follow.
C22_TranscriptAssembly == []C22_Inv /\ [][C22_Step]_vars

\* A model call of a later exchange of a session: its history is not empty
\* and a tool has already run in the exchange.
C22_Witness ==
    \E r \in Requests :
        /\ Len(chat_history[r]) >= 2
        /\ Len(prompt[r]) >= Len(chat_history[r]) + 4

(***************************************************************************)
(* C26: session creation under concurrency.                                *)
(***************************************************************************)
C26_Inv ==
    /\ Cardinality(DOMAIN memory) = Cardinality(DOMAIN chat_sessions)
    /\ \A s1, s2 \in DOMAIN chat_sessions :
          chat_sessions[s1] = chat_sessions[s2] => s1 = s2
    /\ \A r \in Requests :
          agent[r] # 0 =>
              /\ session_id[r] \in DOMAIN chat_sessions
              /\ chat_sessions[session_id[r]] = agent[r]
    /\ \A r1, r2 \in Requests :
          (agent[r1] # 0 /\ agent[r2] # 0 /\ session_id[r1] = session_id[r2])
              => agent[r1] = agent[r2]

C26_Step ==
    /\ \A s \in DOMAIN chat_sessions :
          /\ s \in DOMAIN chat_sessions'
          /\ chat_sessions'[s] = chat_sessions[s]
    /\ \A r \in Requests :
          (pc[r] = "create" /\ pc'[r] = "format") =>
              /\ session_id[r] \notin DOMAIN chat_sessions
              /\ agent'[r] \notin DOMAIN memory

\* C26: every session id has at most one agent, created once: the requests
\* that carry one session id all work on the agent registered for it, an
\* agent is created only for an id that has none at that moment, and a
\* registered agent is never replaced.
C26_OneAgentPerSession == []C26_Inv /\ [][C26_Step]_vars

\* Two requests with one new session id are in flight at the same time, the
\* second having arrived while the first awaited the model.
C26_Witness ==
    \E r1, r2 \in Requests :
        /\ r1 # r2
        /\ session_id[r1] = session_id[r2]
        /\ pc[r1] = "awaiting_model"
        /\ pc[r2] = "awaiting_model"
        /\ agent[r1] = agent[r2]
        /\ agent[r1] # 0
        /\ Cardinality(DOMAIN chat_sessions) = 1

(***************************************************************************)
(* C27: shape of the memory.                                               *)
(***************************************************************************)
\* C27: with a window of at least 1, whenever no request is inside
\* _update_memory on an agent, the agent's memory has even length and its
\* turns alternate, human first: every odd position is a human turn and
\* every even position an assistant turn.
C27_MemoryShape ==
    MEMORY_WINDOW >= 1 =>
        \A a \in DOMAIN memory :
            ~MidUpdate(a) =>
                /\ Len(memory[a]) % 2 = 0
                /\ \A i \in 1..Len(memory[a]) :
                       memory[a][i].role =
                           (IF i % 2 = 1 THEN "human" ELSE "assistant")

\* An exchange has been evicted: more exchanges were written to a session's
\* memory than its window holds, and every request has been answered.
C27_Witness ==
    \E a \in DOMAIN memory :
        /\ MEMORY_WINDOW >= 1
        /\ ~MidUpdate(a)
        /\ Len(log[a]) > MEMORY_WINDOW
        /\ Len(memory[a]) = 2 * MEMORY_WINDOW
        /\ \A r \in Requests : pc[r] = "done"

(***************************************************************************)
(* C28: order of the market-data requests.                                 *)
(***************************************************************************)
\* C28: in a binance_price call at most two upstream requests are made: the
\* first is the price request, the second the 24h-statistics request, made
\* only after a price request that succeeded; no endpoint is requested
\* twice, and a call with a valid symbol that has ended made the price
\* request.
C28_RequestOrdering ==
    t_tool = "binance_price" =>
        /\ Len(t_upstream) <= 2
        /\ Len(t_upstream) >= 1 =>
               t_upstream[1].endpoint = "/api/v3/ticker/price"
        /\ Len(t_upstream) >= 2 =>
               /\ t_upstream[2].endpoint = "/api/v3/ticker/24hr"
               /\ t_upstream[1].outcome = "ok"
        /\ \A i, j \in 1..Len(t_upstream) :
               t_upstream[i].endpoint = t_upstream[j].endpoint => i = j
        /\ (t_pc \in {"returned", "raised"} /\ ArgsValid(t_tool, t_args)
               /\ Len(PyStrip(PyUpper(t_args.symbol))) >= MinSymbolLen) =>
               Len(t_upstream) >= 1

\* A call whose price request failed has ended with that one request made.
C28_Witness ==
    /\ t_tool = "binance_price"
    /\ t_pc = "returned"
    /\ Len(t_upstream) = 1
    /\ t_upstream[1].outcome # "ok"

(***************************************************************************)
(* C29: failures at and after session creation.                            *)
(***************************************************************************)
C29_Step ==
    \A r \in Requests :
        /\ (pc[r] = "create" /\ pc'[r] = "failed") =>
               /\ chat_sessions' = chat_sessions
               /\ memory' = memory
               /\ session_id[r] \notin DOMAIN chat_sessions'
               /\ response'[r].kind = "http_error"
        /\ (pc[r] = "ready" /\ pc'[r] # "ready"
               /\ session_id[r] \notin DOMAIN chat_sessions) =>
               pc'[r] = "create"
        /\ (InProcessMessage(r) /\ pc'[r] = "failed") =>
               /\ chat_sessions' = chat_sessions
               /\ session_id[r] \in DOMAIN chat_sessions'
               /\ chat_sessions'[session_id[r]] = agent[r]
               /\ memory' = memory
               /\ response'[r].kind = "http_error"

C29_Inv ==
    \A r \in Requests :
        (pc[r] = "failed" /\ agent[r] # 0) =>
            \A i \in 1..Len(log[agent[r]]) : log[agent[r]][i].req # r

\* C29: a request whose agent construction raises is answered with an error
\* and leaves the session map and every memory as they were, so its session
\* id stays unregistered and the next request carrying it goes to creation
\* again; a request that fails inside process_message is answered with an
\* error, leaves its session registered with the same agent, and neither
\* the failing step nor any earlier step of the request wrote to a memory.
C29_FailedCreationLeavesNoTrace == []C29_Inv /\ [][C29_Step]_vars

\* A request failed at creation and a later request with the same session id
\* created the agent, then failed inside process_message.
C29_Witness ==
    \E r1, r2 \in Requests :
        /\ r1 < r2
        /\ session_id[r1] = session_id[r2]
        /\ pc[r1] = "failed"
        /\ agent[r1] = 0
        /\ pc[r2] = "failed"
        /\ agent[r2] # 0
        /\ chat_sessions[session_id[r2]] = agent[r2]

(***************************************************************************)
(* C23: the tool catalog of an agent.                                      *)
(***************************************************************************)
RegistrationIndex(name) ==
    CHOOSE i \in DOMAIN RegistrationOrder : RegistrationOrder[i] = name

\* The list holds exactly the tools in `ok`, each once, in registration order.
IsCatalogOf(tools, ok) ==
    /\ {tools[i] : i \in DOMAIN tools} = ok
    /\ ok \subseteq {RegistrationOrder[i] : i \in DOMAIN RegistrationOrder}
    /\ \A i, j \in DOMAIN tools :
          i < j => RegistrationIndex(tools[i]) < RegistrationIndex(tools[j])

C23_Inv ==
    /\ \A a \in DOMAIN agent_tools :
          IsCatalogOf(agent_tools[a].tools, agent_tools[a].ok)
    /\ c_pc # "idle" => IsCatalogOf(c_tools, c_ok)

C23_Step ==
    \A a \in DOMAIN agent_tools :
        /\ a \in DOMAIN agent_tools'
        /\ agent_tools'[a] = agent_tools[a]

\* C23: the tool list of every agent, and the list being built, holds
\* exactly the tools whose constructor returned, each once and in the order
\* binance_price, knowledge_base, rejection_handler, whatever the outcomes
\* of the other constructors were; and the list of an agent that has been
\* constructed never changes.
C23_ToolCatalog == []C23_Inv /\ [][C23_Step]_vars

\* One agent was built with the knowledge tool failing between two tools
\* that initialized, another with all three tools.
C23_Witness ==
    \E a, b \in DOMAIN agent_tools :
        /\ agent_tools[a].ok = {"binance_price", "rejection_handler"}
        /\ agent_tools[a].tools = <<"binance_price", "rejection_handler">>
        /\ Len(agent_tools[b].tools) = Len(RegistrationOrder)

(***************************************************************************)
(* C24: ingestion with reset.                                              *)
(***************************************************************************)
C24_Step ==
    \A t \in Runs :
        i_reset[t] =>
            /\ (i_pc[t] = "write" /\ i_pc'[t] = "done") =>
                   /\ i_ret'[t] = i_chunks[t]
                   /\ stores'[IngestStoreKey(VECTOR_DB_TYPE)] =
                          ChunksOf(t, i_chunks[t])
            /\ (i_pc[t] = "load" /\ i_pc'[t] = "done") =>
                   /\ i_ret'[t] = 0
                   /\ stores' = stores
                   /\ \A i \in DOMAIN writes : writes[i].run # t

\* C24: when an ingestion run with reset = true returns after adding its
\* chunks, the count it returns is the number of chunks it added and the
\* store holds exactly the chunks of this run; when its directory yields no
\* documents it returns 0 and has added nothing.
C24_IngestWithReset == [][C24_Step]_vars

(***************************************************************************)
(* C25: the store the knowledge tool searches.                             *)
(***************************************************************************)
C25_Inv ==
    (VECTOR_DB_TYPE = DefaultDbType /\ kb_tool.built
        /\ kb_tool.vector_store # NoStore) =>
        kb_tool.vector_store = IngestStoreKey(VECTOR_DB_TYPE)

C25_Step ==
    (VECTOR_DB_TYPE = DefaultDbType /\ kb_found' # kb_found
        /\ kb_found'.kind = "results") =>
        kb_found'.found = stores[IngestStoreKey(VECTOR_DB_TYPE)]

\* C25: under the default configuration the store the knowledge tool has
\* opened is the location and collection that ingestion writes, and a
\* search finds the chunks ingestion has added.
C25_SameStore == []C25_Inv /\ [][C25_Step]_vars

(***************************************************************************)
(* C30: the cache of the vector store instance.                            *)
(***************************************************************************)
\* C30: no two store instances are built without a completed
\* delete_collection between them; add_documents always gets an instance,
\* and never adds through an instance built before a delete_collection that
\* has completed; nothing is cached under an unsupported type.
C30_VectorStoreCache ==
    /\ \A i, j \in DOMAIN vs_made :
          vs_made[i].epoch = vs_made[j].epoch => i = j
    /\ \A t \in Runs : i_pc[t] = "write" => i_store[t] # 0
    /\ \A i \in DOMAIN writes :
          vs_made[writes[i].instance].epoch = writes[i].deletes
    /\ ~Supported(VECTOR_DB_TYPE) => vector_store_instance = 0
=============================================================================
